---- MODULE Spec2Model ----
(***************************************************************************)
(* encode_unicode: conversion between chars, UTF-8 and UTF-16              *)
(* (src/traits.rs, src/utf8_char.rs).                                      *)
(*                                                                         *)
(* Every function of the crate is pure.  The state of the model is one     *)
(* client of the crate: it makes one call (pc "idle" -> "returned"), or    *)
(* constructs a Utf8Char (pc "idle" -> "have_uc") and calls a method on    *)
(* it, and then drops everything (Drop).  args / ret / dst hold the        *)
(* arguments, the returned value and the destination buffer after the      *)
(* call.  big_endian is the byte order of the target the crate was built   *)
(* for (mem::transmute between u32 and [u8;4] depends on it).              *)
(***************************************************************************)
EXTENDS Integers, Sequences, FiniteSets, TLC

VARIABLES pc, op, args, ret, uc, dst, big_endian

vars == <<pc, op, args, ret, uc, dst, big_endian>>

(***************************************************************************)
(* Fixed-width unsigned integer primitives (u8, u16, u32).                 *)
(***************************************************************************)
RECURSIVE Pow2(_)
Pow2(n) == IF n = 0 THEN 1 ELSE 2 * Pow2(n - 1)

RECURSIVE BitAnd(_, _)
BitAnd(a, b) ==
    IF a = 0 \/ b = 0 THEN 0
    ELSE (a % 2) * (b % 2) + 2 * BitAnd(a \div 2, b \div 2)

RECURSIVE BitOr(_, _)
BitOr(a, b) ==
    IF a = 0 THEN b
    ELSE IF b = 0 THEN a
    ELSE (IF a % 2 = 1 \/ b % 2 = 1 THEN 1 ELSE 0) + 2 * BitOr(a \div 2, b \div 2)

\* x << n in a w-bit unsigned integer: the bits shifted out are lost
\* (computed as (x mod 2^(w-n)) * 2^n, which never leaves w bits)
Shl(x, n, w) == (x % Pow2(w - n)) * Pow2(n)

\* x >> n
Shr(x, n) == x \div Pow2(n)

\* !x in a w-bit unsigned integer
BitNot(x, w) == Pow2(w) - 1 - x

\* number of significant bits of x
RECURSIVE BitLen(_)
BitLen(x) == IF x = 0 THEN 0 ELSE 1 + BitLen(x \div 2)

\* x.leading_zeros() in a w-bit unsigned integer
LeadingZeros(x, w) == w - BitLen(x)

\* usize::saturating_sub
SaturatingSub(a, b) == IF a >= b THEN a - b ELSE 0

(***************************************************************************)
(* A u32 that uses all its 32 bits (the packed bytes of to_utf8_array and  *)
(* from_array) is held as its four bytes, least significant first: the     *)
(* integers of the model checker stop at 2^31 - 1.  The code shifts these  *)
(* words by multiples of 8 bits only.                                      *)
(***************************************************************************)
Word(x) == <<x % 256, (x \div \h100) % 256, (x \div \h10000) % 256, x \div \h1000000>>

WordOr(a, b) == [i \in 1..4 |-> BitOr(a[i], b[i])]

WordAnd(a, b) == [i \in 1..4 |-> BitAnd(a[i], b[i])]

WordNot(a) == [i \in 1..4 |-> BitNot(a[i], 8)]

\* a << 8*k
WordShlBytes(a, k) == [i \in 1..4 |-> IF i > k THEN a[i - k] ELSE 0]

\* a >> 8*k
WordShrBytes(a, k) == [i \in 1..4 |-> IF i + k <= 4 THEN a[i + k] ELSE 0]

\* u32::swap_bytes
SwapBytes(a) == <<a[4], a[3], a[2], a[1]>>

\* u32::from_le: the identity on a little-endian target
FromLe(a) == IF big_endian THEN SwapBytes(a) ELSE a

\* mem::transmute::<u32,[u8;4]>: the bytes of the word in memory order
TransmuteToBytes(a) == IF big_endian THEN <<a[4], a[3], a[2], a[1]>> ELSE <<a[1], a[2], a[3], a[4]>>

\* mem::transmute::<[u8;4],u32>
TransmuteToU32(b) == IF big_endian THEN <<b[4], b[3], b[2], b[1]>> ELSE <<b[1], b[2], b[3], b[4]>>

(***************************************************************************)
(* Values returned by the fallible functions.                              *)
(***************************************************************************)
Ok(v, l) == [tag |-> "Ok", val |-> v, len |-> l]
Err(e, k) == [tag |-> "Err", err |-> e, n |-> k]
Panic == [tag |-> "Panic"]
NoCall == [tag |-> "NoCall"]
None == [tag |-> "None"]
Some(k) == [tag |-> "Some", n |-> k]

\* a value of type char is a Unicode scalar value
IsChar(c) == c \in 0..\hD7FF \/ c \in \hE000..\h10FFFF

(***************************************************************************)
(* U8UtfExt, U16UtfExt                                                     *)
(***************************************************************************)
extra_utf8_bytes(b) ==
    LET n == LeadingZeros(BitNot(b, 8), 8)
    IN  IF n = 0 THEN Ok(0, 0)
        ELSE IF n = 1 THEN Err("FirstByte(ContinuationByte)", 0)
        ELSE IF n < 5 THEN Ok(n - 1, 0)
        ELSE Err("FirstByte(TooLongSeqence)", 0)

extra_utf8_bytes_unchecked(b) ==
    SaturatingSub(LeadingZeros(BitNot(b, 8), 8), 1)

\* Option<bool>: "None", "Some(true)", "Some(false)"
utf16_needs_extra_unit(u) ==
    IF u \in \hDC00..\hDFFF THEN "None"
    ELSE IF u \in \hD800..\hDBFF THEN "Some(true)"
    ELSE "Some(false)"

(***************************************************************************)
(* CharExt for char: UTF-8                                                 *)
(***************************************************************************)
\* char::len_utf8 of the standard library
len_utf8(c) ==
    IF c < \h80 THEN 1
    ELSE IF c < \h800 THEN 2
    ELSE IF c < \h10000 THEN 3
    ELSE 4

\* the u32 `parts` of to_utf8_array, for len > 1
to_utf8_parts(c, len) ==
    LET p1 == Word(BitAnd(c, \h3F))
        c1 == Shr(c, 6)
        p2 == WordOr(WordShlBytes(p1, 1), Word(BitAnd(c1, \h3F)))
        c2 == Shr(c1, 6)
        p3 == WordOr(WordShlBytes(p2, 1), Word(BitAnd(c2, \h3F)))
        c3 == Shr(c2, 6)
        p4 == WordOr(WordShlBytes(p3, 1), Word(BitAnd(c3, \h3F)))
        p5 == WordOr(p4, <<\h80, \h80, \h80, \h80>>)
        p6 == WordShrBytes(p5, 4 - len)
        p7 == WordOr(p6, Word(BitAnd(Shr(\hFF00, len), \hFF)))
    IN  WordAnd(p7, WordNot(Word(Shl(1, 7 - len, 32))))

\* a bug to_utf8_array could have: the bytes taken in the order of the
\* target, without u32::from_le
to_utf8_array_native_order(c) ==
    IF len_utf8(c) = 1 THEN <<(<<c % 256, 0, 0, 0>>), 1>>
    ELSE <<TransmuteToBytes(to_utf8_parts(c, len_utf8(c))), len_utf8(c)>>

\* returns <<bytes, len>>
to_utf8_array(c) ==
    LET len == len_utf8(c)
    IN  IF len = 1 THEN <<(<<c % 256, 0, 0, 0>>), 1>>
        ELSE <<TransmuteToBytes(FromLe(to_utf8_parts(c, len))), len>>

\* If all the data bits in the first byte are zero, the sequence might be
\* longer than necessary
overlong(first, second) ==
    LET both == BitOr(Shl(first, 8, 16), Shl(second, 2, 8))
        shifted == Shl(both, 1 + LeadingZeros(BitNot(both, 16), 16), 16)
    IN  LeadingZeros(shifted, 16) >= 5

\* folds  c = (c << 6) | (b & 0b00111111)  over src[i..]
RECURSIVE FoldContinuation(_, _, _)
FoldContinuation(c, src, i) ==
    IF i > Len(src) THEN c
    ELSE FoldContinuation(BitOr(Shl(c, 6, 32), BitAnd(src[i], \h3F)), src, i + 1)

\* the u32 inside the char that is returned: nothing is validated here
from_utf8_exact_slice_unchecked(src) ==
    IF Len(src) = 1 THEN src[1]
    ELSE FoldContinuation(BitAnd(src[1], Shr(\hFF, 2 + Len(src) - 1)), src, 2)

\* a <= b for two u32 held as words: decided by the most significant byte
\* in which they differ
RECURSIVE WordLeFrom(_, _, _)
WordLeFrom(a, b, i) ==
    IF i < 1 THEN TRUE
    ELSE IF a[i] < b[i] THEN TRUE
    ELSE IF a[i] > b[i] THEN FALSE
    ELSE WordLeFrom(a, b, i - 1)

WordLe(a, b) == WordLeFrom(a, b, 4)

\* a range pattern lo...hi of a match on a u32 (both ends included)
InRange(w, lo, hi) == WordLe(lo, w) /\ WordLe(w, hi)

\* the number a word holds, for a word below 2^31
WordValue(w) == w[1] + w[2] * \h100 + w[3] * \h10000 + w[4] * \h1000000

\* u32::MAX
U32Max == <<\hFF, \hFF, \hFF, \hFF>>

\* a bug from_u32_detailed could have: the surrogate range written with
\* its upper end excluded (0xd800..0xdfff)
from_u32_detailed_open_range(c) ==
    IF InRange(c, Word(\hD800), Word(\hDFFE)) THEN Err("Utf16Reserved", 0)
    ELSE IF InRange(c, Word(\h110000), U32Max) THEN Err("TooHigh", 0)
    ELSE Ok(WordValue(c), 0)

\* c is the whole u32, held as a word
from_u32_detailed(c) ==
    IF InRange(c, Word(\hD800), Word(\hDFFF)) THEN Err("Utf16Reserved", 0)
    ELSE IF InRange(c, Word(\h110000), U32Max) THEN Err("TooHigh", 0)
    ELSE Ok(WordValue(c), 0)

\* index (from 0) of the first byte of src[2..] that is no continuation
\* byte, -1 when there is none
RECURSIVE FirstNotContinuation(_, _)
FirstNotContinuation(src, i) ==
    IF i > Len(src) THEN -1
    ELSE IF src[i] < \h80 \/ src[i] > \hBF THEN i - 1
    ELSE FirstNotContinuation(src, i + 1)

\* the validation from_utf8_slice and from_utf8_array share: src is the
\* sequence cut to the 1 + extra bytes its first byte declares
DecodeChecked(src) ==
    LET bad == FirstNotContinuation(src, 2)
    IN  IF bad # -1 THEN Err("Utf8(NotAContinuationByte)", bad)
        ELSE IF overlong(src[1], src[2]) THEN Err("Utf8(OverLong)", 0)
        ELSE LET r == from_u32_detailed(Word(from_utf8_exact_slice_unchecked(src)))
             IN  IF r.tag = "Ok" THEN Ok(r.val, Len(src))
                 ELSE Err("CodePoint(" \o r.err \o ")", 0)

\* a bug from_utf8_slice could have: TooShort carrying the number of bytes
\* that are missing instead of the number the sequence needs
from_utf8_slice_reports_missing(src) ==
    IF Len(src) = 0 THEN Err("TooShort", 1)
    ELSE LET first == src[1]
             e == extra_utf8_bytes(first)
         IN  IF e.tag = "Err" THEN Err("Utf8(" \o e.err \o ")", 0)
             ELSE IF e.val = 0 THEN Ok(first, 1)
             ELSE IF Len(src) <= e.val THEN Err("TooShort", e.val + 1 - Len(src))
             ELSE DecodeChecked(SubSeq(src, 1, 1 + e.val))

from_utf8_slice(src) ==
    IF Len(src) = 0 THEN Err("TooShort", 1)
    ELSE LET first == src[1]
             e == extra_utf8_bytes(first)
         IN  IF e.tag = "Err" THEN Err("Utf8(" \o e.err \o ")", 0)
             ELSE IF e.val = 0 THEN Ok(first, 1)
             ELSE IF Len(src) <= e.val THEN Err("TooShort", e.val + 1)
             ELSE DecodeChecked(SubSeq(src, 1, 1 + e.val))

\* the Ok value carries no length: len is 0
from_utf8_array(utf8) ==
    LET e == extra_utf8_bytes(utf8[1])
    IN  IF e.tag = "Err" THEN Err("Utf8(" \o e.err \o ")", 0)
        ELSE IF e.val = 0 THEN Ok(utf8[1], 0)
        ELSE LET r == DecodeChecked(SubSeq(utf8, 1, e.val + 1))
             IN  IF r.tag = "Ok" THEN Ok(r.val, 0) ELSE r

(***************************************************************************)
(* CharExt for char: UTF-16.  An Option<u16> is <<>> (None) or <<v>>.      *)
(***************************************************************************)
\* returns <<first, second>>
to_utf16_tuple(c) ==
    IF c <= \hFFFF THEN <<c % \h10000, <<>> >>
    ELSE LET d == c - \h10000
             high == \hD800 + Shr(d, 10)
             low == \hDC00 + BitAnd(d, \h3FF)
         IN  <<high % \h10000, <<low % \h10000>> >>

\* a bug from_utf16_tuple_unchecked could have: the 0x10000 the encoder
\* subtracted is not added back
from_utf16_tuple_unchecked_no_offset(first, second) ==
    IF second = <<>> THEN first
    ELSE BitOr(Shl(first - \hD800, 10, 32), second[1] - \hDC00)

\* the u32 inside the char that is returned: nothing is validated here
from_utf16_tuple_unchecked(first, second) ==
    IF second = <<>> THEN first
    ELSE LET high == Shl(first - \hD800, 10, 32)
             low == second[1] - \hDC00
         IN  BitOr(high, low) + \h10000

from_utf16_slice(src) ==
    IF Len(src) = 0 THEN Err("EmptySlice", 0)
    ELSE LET first == src[1]
             need == utf16_needs_extra_unit(first)
         IN  IF need = "Some(false)"
               THEN Ok(from_utf16_tuple_unchecked(first, <<>>), 1)
             ELSE IF need = "Some(true)" /\ Len(src) >= 2 /\ src[2] \in \hDC00..\hDFFF
               THEN Ok(from_utf16_tuple_unchecked(first, <<src[2]>>), 2)
             ELSE IF need = "Some(true)" /\ Len(src) >= 2
               THEN Err("SecondNotLowSurrogate", 0)
             ELSE IF need = "Some(true)"
               THEN Err("MissingSecond", 0)
             ELSE Err("FirstLowSurrogate", 0)

\* the arms of the match, in the order of the source; the last arm is
\* unreachable!(), which panics
from_utf16_tuple(first, second) ==
    LET checked ==
          IF first \in 0..\hD7FF /\ second = <<>> THEN "Ok"
          ELSE IF first \in \hE000..\hFFFF /\ second = <<>> THEN "Ok"
          ELSE IF first \in \hD800..\hDBFF /\ second # <<>> /\ second[1] \in \hDC00..\hDFFF
            THEN "Ok"
          ELSE IF first \in \hD800..\hDBFF /\ second # <<>> THEN "InvalidSecond"
          ELSE IF first \in \hDC00..\hDFFF /\ second = <<>> THEN "MissingSecond"
          ELSE IF first \in \hDC00..\hDFFF THEN "FirstIsTrailingSurrogate"
          ELSE IF second # <<>> THEN "SuperfluousSecond"
          ELSE "unreachable"
    IN  IF checked = "Ok" THEN Ok(from_utf16_tuple_unchecked(first, second), 0)
        ELSE IF checked = "unreachable" THEN Panic
        ELSE Err(checked, 0)

\* returns <<Option<usize>, dst after the call>>
to_utf16_slice(c, d) ==
    LET t == to_utf16_tuple(c)
        first == t[1]
        second == t[2]
    IN  IF Len(d) = 0 THEN <<None, d>>
        ELSE IF Len(d) = 1 /\ second # <<>> THEN <<None, d>>
        ELSE IF second # <<>>
          THEN <<Some(2), [i \in 1..Len(d) |-> IF i = 1 THEN first ELSE IF i = 2 THEN second[1] ELSE d[i]]>>
        ELSE <<Some(1), [i \in 1..Len(d) |-> IF i = 1 THEN first ELSE d[i]]>>

(***************************************************************************)
(* Utf8Char: a [u8;4]                                                      *)
(***************************************************************************)
\* #[derive(Default)]
Utf8Char_default == <<0, 0, 0, 0>>

Utf8Char_len(bytes) == extra_utf8_bytes_unchecked(bytes[1]) + 1

\* impl From<Utf8Char> for char, which to_char calls
Utf8Char_to_char(bytes) ==
    from_utf8_exact_slice_unchecked(SubSeq(bytes, 1, Utf8Char_len(bytes)))

\* impl From<char> for Utf8Char, which CharExt::to_utf8 calls
Utf8Char_from(c) == to_utf8_array(c)[1]

\* a bug from_str could have: the length of the codepoint compared with the
\* number of bytes copied, which is at most 4
Utf8Char_from_str_copied(s) ==
    LET bytes == [i \in 1..4 |-> IF i <= Len(s) THEN s[i] ELSE Utf8Char_default[i]]
    IN  IF Len(s) = 0 THEN Err("Empty", 0)
        ELSE IF Utf8Char_len(bytes) # (IF Len(s) < 4 THEN Len(s) ELSE 4)
          THEN Err("SeveralCodePoints", 0)
        ELSE Ok(bytes, 0)

\* s is s.as_bytes(); the zip copies min(s.len(), 4) bytes
Utf8Char_from_str(s) ==
    LET bytes == [i \in 1..4 |-> IF i <= Len(s) THEN s[i] ELSE Utf8Char_default[i]]
    IN  IF Len(s) = 0 THEN Err("Empty", 0)
        ELSE IF Utf8Char_len(bytes) # Len(s) THEN Err("SeveralCodePoints", 0)
        ELSE Ok(bytes, 0)

Utf8Char_from_slice_start(src) ==
    LET r == from_utf8_slice(src)
    IN  IF r.tag # "Ok" THEN r
        ELSE Ok([i \in 1..4 |-> IF i <= r.len THEN src[i] ELSE Utf8Char_default[i]], r.len)

Utf8Char_from_array(utf8) ==
    LET r == from_utf8_array(utf8)
        len == Utf8Char_len(utf8)
        mask == FromLe(WordShrBytes(<<\hFF, \hFF, \hFF, \hFF>>, 4 - len))
        unused_zeroed == WordAnd(mask, TransmuteToU32(utf8))
    IN  IF r.tag # "Ok" THEN r
        ELSE Ok(TransmuteToBytes(unused_zeroed), 0)

\* a bug to_slice could have: < for <=, so a buffer of exactly the length
\* of the encoding is refused
Utf8Char_to_slice_strict(bytes, d) ==
    IF Utf8Char_len(bytes) < Len(d)
    THEN <<Some(Utf8Char_len(bytes)), [i \in 1..Len(d) |-> IF i <= 4 THEN bytes[i] ELSE d[i]]>>
    ELSE <<None, d>>

\* returns <<Option<usize>, dst after the call>>; the zip stops at the
\* shorter of dst and the four bytes of the array
Utf8Char_to_slice(bytes, d) ==
    IF Utf8Char_len(bytes) <= Len(d)
    THEN <<Some(Utf8Char_len(bytes)), [i \in 1..Len(d) |-> IF i <= 4 THEN bytes[i] ELSE d[i]]>>
    ELSE <<None, d>>

Utf8Char_to_array(bytes) == <<bytes, Utf8Char_len(bytes)>>

to_utf8_slice(c, d) == Utf8Char_to_slice(Utf8Char_from(c), d)

\* #[derive(PartialOrd,Ord)] on the [u8;4]: lexicographic, from index i
RECURSIVE CmpFrom(_, _, _)
CmpFrom(a, b, i) ==
    IF i > 4 THEN "Equal"
    ELSE IF a[i] < b[i] THEN "Less"
    ELSE IF a[i] > b[i] THEN "Greater"
    ELSE CmpFrom(a, b, i + 1)

\* a bug the ordering could have: the four bytes compared as one
\* little-endian u32, that is from the last byte to the first
RECURSIVE CmpDownFrom(_, _, _)
CmpDownFrom(a, b, i) ==
    IF i < 1 THEN "Equal"
    ELSE IF a[i] < b[i] THEN "Less"
    ELSE IF a[i] > b[i] THEN "Greater"
    ELSE CmpDownFrom(a, b, i - 1)

Utf8Char_cmp_as_u32(a, b) == CmpDownFrom(a, b, 4)

Utf8Char_cmp(a, b) == CmpFrom(a, b, 1)

\* #[derive(PartialEq,Eq)]
Utf8Char_eq(a, b) == \A i \in 1..4 : a[i] = b[i]

(***************************************************************************)
(* The str type of the standard library: a string is a sequence of chars,  *)
(* and as_bytes() gives its UTF-8 encoding.                                *)
(***************************************************************************)
StdEncodeUtf8(c) ==
    IF c < \h80 THEN <<c>>
    ELSE IF c < \h800 THEN <<\hC0 + (c \div \h40), \h80 + (c % \h40)>>
    ELSE IF c < \h10000
      THEN <<\hE0 + (c \div \h1000), \h80 + ((c \div \h40) % \h40), \h80 + (c % \h40)>>
    ELSE <<\hF0 + (c \div \h40000), \h80 + ((c \div \h1000) % \h40),
           \h80 + ((c \div \h40) % \h40), \h80 + (c % \h40)>>

RECURSIVE as_bytes(_)
as_bytes(chars) ==
    IF chars = <<>> THEN <<>>
    ELSE StdEncodeUtf8(Head(chars)) \o as_bytes(Tail(chars))

\* char's Ord: the order of the scalar values
char_cmp(a, b) == IF a < b THEN "Less" ELSE IF a > b THEN "Greater" ELSE "Equal"

(***************************************************************************)
(* The inputs the client draws its arguments from.                         *)
(***************************************************************************)
Radius == 2
Stride == 8191
MaxSliceLen == 4
MaxUnits == 2
MaxStrChars == 2
MaxDst == 5

\* the scalars where the length of an encoding changes, and the edges of
\* the surrogate gap
Boundaries == {0, \h7F, \h80, \h7FF, \h800, \hD7FF, \hE000, \hFFFF, \h10000, \h10FFFF}

Examples == {\h61, \hE9, \h20AC, \h1F600}

NearBoundaries ==
    {c \in UNION {(b - Radius)..(b + Radius) : b \in Boundaries} : c >= 0 /\ IsChar(c)}

Scalars ==
    NearBoundaries \cup Examples
    \cup {c \in {k * Stride : k \in 0..(\h10FFFF \div Stride)} : IsChar(c)}

RECURSIVE SeqsUpTo(_, _)
SeqsUpTo(S, n) ==
    IF n = 0 THEN {<<>>}
    ELSE LET shorter == SeqsUpTo(S, n - 1)
         IN  shorter \cup {Append(q, x) : q \in {r \in shorter : Len(r) = n - 1}, x \in S}

ByteSamples == {\h41, \h80, \hBF, \hC1, \hED, \hF4, \hFF}

ContSamples == {\h80, \hBF}

SampleSlices == SeqsUpTo(ByteSamples, MaxSliceLen)

\* every lead byte with every second continuation byte, completed with
\* continuation bytes to the length the lead byte declares
LeadSlices ==
    {<<l, b>> : l \in \hC0..\hDF, b \in \h80..\hBF}
    \cup {<<l, b, t>> : l \in \hE0..\hEF, b \in \h80..\hBF, t \in ContSamples}
    \cup {<<l, b, t, u>> : l \in \hF0..\hF7, b \in \h80..\hBF, t \in ContSamples, u \in ContSamples}

\* the encodings of the scalars, whole and cut short
EncodedPrefixes ==
    UNION {{SubSeq(StdEncodeUtf8(c), 1, n) : n \in 0..Len(StdEncodeUtf8(c))} : c \in Scalars}

Utf8Slices == SampleSlices \cup LeadSlices \cup EncodedPrefixes

Pad(q, x) == [i \in 1..4 |-> IF i <= Len(q) THEN q[i] ELSE x]

Utf8Arrays ==
    {Pad(q, 0) : q \in {r \in SampleSlices \cup LeadSlices : Len(r) \in 1..4}}
    \cup {Pad(q, \hBF) : q \in {r \in SampleSlices : Len(r) \in 1..4}}

\* what the Utf8Char constructors are given
CtorSlices == SampleSlices \cup EncodedPrefixes

CtorArrays == {Pad(q, x) : q \in {r \in SampleSlices : Len(r) \in 1..4}, x \in {0, \hBF}}

StrChars == {0, \h61, \h62, \hE9, \h7FF, \h20AC, \hFFFF, \h1F600}

Strs == SeqsUpTo(StrChars, MaxStrChars)

UnitSamples ==
    {\h41, \hD7FF, \hD800, \hD83D, \hDBFF, \hDC00, \hDE00, \hDFFF, \hE000, \hFFFF}

Utf16Slices ==
    SeqsUpTo(UnitSamples, MaxUnits)
    \cup {<<u>> : u \in \hD800..\hDFFF}
    \cup {<<u, v>> : u \in \hD800..\hDFFF, v \in {\h41, \hDE00}}

Utf16Tuples ==
    {<<u, <<>> >> : u \in UnitSamples \cup (\hD800..\hDFFF)}
    \cup {<<u, <<v>> >> : u \in UnitSamples, v \in UnitSamples}
    \cup {<<u, <<v>> >> : u \in \hD800..\hDFFF, v \in {\h41, \hDE00}}

\* destination buffers: every length, filled with a value no encoding of
\* the scalars above puts there
Dst8 == {[i \in 1..n |-> x] : n \in 0..MaxDst, x \in {\hFF, \h5A}}

Dst16 == {[i \in 1..n |-> x] : n \in 0..MaxDst, x \in {\hFFFF, \h5A5A}}

\* raw u32 values, as words: around the ends of the two rejected ranges,
\* the scalars above, and words with every mix of low and high bytes up
\* to u32::MAX
RawBoundaries == {\hD800, \hDFFF, \h10FFFF, \h110000}

RawSamples ==
    {Word(c) : c \in Scalars \cup UNION {(b - Radius)..(b + Radius) : b \in RawBoundaries}}
    \cup {<<b1, b2, b3, b4>> : b1 \in {0, \hFF}, b2 \in {0, \hD8, \hDF, \hFF},
                               b3 \in {0, \h01, \h10, \h11, \hFF},
                               b4 \in {0, \h01, \h7F, \h80, \hFF}}

(***************************************************************************)
(* The client.                                                             *)
(***************************************************************************)
Init ==
    /\ pc = "idle"
    /\ op = "none"
    /\ args = <<>>
    /\ ret = NoCall
    /\ uc = <<>>
    /\ dst = <<>>
    /\ big_endian \in BOOLEAN

\* A call of a free function (Call_*, from "idle") records its arguments, what
\* it returned and the destination buffer after it.  A constructor of
\* Utf8Char (New_*) leaves the client holding the value when it returns Ok.
\* A method (Call_*, from "have_uc") is called on the value the client holds.
Call_to_utf8_array ==
    /\ pc = "idle"
    /\ \E c \in Scalars :
        /\ pc' = "returned"
        /\ op' = "to_utf8_array"
        /\ args' = <<c>>
        /\ ret' = to_utf8_array(c)
        /\ dst' = <<>>
        /\ UNCHANGED <<uc, big_endian>>

Call_from_utf8_slice ==
    /\ pc = "idle"
    /\ \E src \in Utf8Slices :
        /\ pc' = "returned"
        /\ op' = "from_utf8_slice"
        /\ args' = <<src>>
        /\ ret' = from_utf8_slice(src)
        /\ dst' = <<>>
        /\ UNCHANGED <<uc, big_endian>>

Call_from_utf8_array ==
    /\ pc = "idle"
    /\ \E utf8 \in Utf8Arrays :
        /\ pc' = "returned"
        /\ op' = "from_utf8_array"
        /\ args' = <<utf8>>
        /\ ret' = from_utf8_array(utf8)
        /\ dst' = <<>>
        /\ UNCHANGED <<uc, big_endian>>

Call_to_utf8_slice ==
    /\ pc = "idle"
    /\ \E c \in Scalars, d \in Dst8 :
        /\ pc' = "returned"
        /\ op' = "to_utf8_slice"
        /\ args' = <<c, d>>
        /\ ret' = to_utf8_slice(c, d)[1]
        /\ dst' = to_utf8_slice(c, d)[2]
        /\ UNCHANGED <<uc, big_endian>>

Call_to_utf16_tuple ==
    /\ pc = "idle"
    /\ \E c \in Scalars :
        /\ pc' = "returned"
        /\ op' = "to_utf16_tuple"
        /\ args' = <<c>>
        /\ ret' = to_utf16_tuple(c)
        /\ dst' = <<>>
        /\ UNCHANGED <<uc, big_endian>>

Call_to_utf16_slice ==
    /\ pc = "idle"
    /\ \E c \in Scalars, d \in Dst16 :
        /\ pc' = "returned"
        /\ op' = "to_utf16_slice"
        /\ args' = <<c, d>>
        /\ ret' = to_utf16_slice(c, d)[1]
        /\ dst' = to_utf16_slice(c, d)[2]
        /\ UNCHANGED <<uc, big_endian>>

Call_from_utf16_slice ==
    /\ pc = "idle"
    /\ \E src \in Utf16Slices :
        /\ pc' = "returned"
        /\ op' = "from_utf16_slice"
        /\ args' = <<src>>
        /\ ret' = from_utf16_slice(src)
        /\ dst' = <<>>
        /\ UNCHANGED <<uc, big_endian>>

Call_from_utf16_tuple ==
    /\ pc = "idle"
    /\ \E t \in Utf16Tuples :
        /\ pc' = "returned"
        /\ op' = "from_utf16_tuple"
        /\ args' = t
        /\ ret' = from_utf16_tuple(t[1], t[2])
        /\ dst' = <<>>
        /\ UNCHANGED <<uc, big_endian>>

Call_from_u32_detailed ==
    /\ pc = "idle"
    /\ \E c \in RawSamples :
        /\ pc' = "returned"
        /\ op' = "from_u32_detailed"
        /\ args' = <<c>>
        /\ ret' = from_u32_detailed(c)
        /\ dst' = <<>>
        /\ UNCHANGED <<uc, big_endian>>

New_default ==
    /\ pc = "idle"
    /\ ret' = Ok(Utf8Char_default, 0)
    /\ pc' = IF ret'.tag = "Ok" THEN "have_uc" ELSE "returned"
    /\ op' = "default"
    /\ args' = <<>>
    /\ uc' = IF ret'.tag = "Ok" THEN ret'.val ELSE uc
    /\ UNCHANGED <<dst, big_endian>>

New_from ==
    /\ pc = "idle"
    /\ \E c \in Scalars :
        /\ ret' = Ok(Utf8Char_from(c), 0)
        /\ pc' = IF ret'.tag = "Ok" THEN "have_uc" ELSE "returned"
        /\ op' = "from"
        /\ args' = <<c>>
        /\ uc' = IF ret'.tag = "Ok" THEN ret'.val ELSE uc
        /\ UNCHANGED <<dst, big_endian>>

New_from_str ==
    /\ pc = "idle"
    /\ \E s \in Strs :
        /\ ret' = Utf8Char_from_str(as_bytes(s))
        /\ pc' = IF ret'.tag = "Ok" THEN "have_uc" ELSE "returned"
        /\ op' = "from_str"
        /\ args' = <<s>>
        /\ uc' = IF ret'.tag = "Ok" THEN ret'.val ELSE uc
        /\ UNCHANGED <<dst, big_endian>>

New_from_slice_start ==
    /\ pc = "idle"
    /\ \E src \in CtorSlices :
        /\ ret' = Utf8Char_from_slice_start(src)
        /\ pc' = IF ret'.tag = "Ok" THEN "have_uc" ELSE "returned"
        /\ op' = "from_slice_start"
        /\ args' = <<src>>
        /\ uc' = IF ret'.tag = "Ok" THEN ret'.val ELSE uc
        /\ UNCHANGED <<dst, big_endian>>

New_from_array ==
    /\ pc = "idle"
    /\ \E utf8 \in CtorArrays :
        /\ ret' = Utf8Char_from_array(utf8)
        /\ pc' = IF ret'.tag = "Ok" THEN "have_uc" ELSE "returned"
        /\ op' = "from_array"
        /\ args' = <<utf8>>
        /\ uc' = IF ret'.tag = "Ok" THEN ret'.val ELSE uc
        /\ UNCHANGED <<dst, big_endian>>

Call_to_slice ==
    /\ pc = "have_uc"
    /\ \E d \in Dst8 :
        /\ pc' = "returned"
        /\ op' = "to_slice"
        /\ args' = <<uc, d>>
        /\ ret' = Utf8Char_to_slice(uc, d)[1]
        /\ dst' = Utf8Char_to_slice(uc, d)[2]
        /\ UNCHANGED <<uc, big_endian>>

Call_to_array ==
    /\ pc = "have_uc"
    /\ pc' = "returned"
    /\ op' = "to_array"
    /\ args' = <<uc>>
    /\ ret' = Utf8Char_to_array(uc)
    /\ dst' = dst
    /\ UNCHANGED <<uc, big_endian>>

Call_to_char ==
    /\ pc = "have_uc"
    /\ pc' = "returned"
    /\ op' = "to_char"
    /\ args' = <<uc>>
    /\ ret' = Utf8Char_to_char(uc)
    /\ dst' = dst
    /\ UNCHANGED <<uc, big_endian>>

\* uc.cmp(&Utf8Char::from(b)) and uc == Utf8Char::from(b)
Call_cmp ==
    /\ pc = "have_uc"
    /\ \E b \in NearBoundaries \cup Examples :
        /\ pc' = "returned"
        /\ op' = "cmp"
        /\ args' = <<uc, b>>
        /\ ret' = <<Utf8Char_cmp(uc, Utf8Char_from(b)), Utf8Char_eq(uc, Utf8Char_from(b))>>
        /\ dst' = dst
        /\ UNCHANGED <<uc, big_endian>>

\* the values go out of scope
Drop ==
    /\ pc \in {"returned", "have_uc"}
    /\ pc' = "idle"
    /\ op' = "none"
    /\ args' = <<>>
    /\ ret' = NoCall
    /\ uc' = <<>>
    /\ dst' = <<>>
    /\ UNCHANGED big_endian

Next ==
    \/ Call_to_utf8_array
    \/ Call_from_utf8_slice
    \/ Call_from_utf8_array
    \/ Call_to_utf8_slice
    \/ Call_to_utf16_tuple
    \/ Call_to_utf16_slice
    \/ Call_from_utf16_slice
    \/ Call_from_utf16_tuple
    \/ Call_from_u32_detailed
    \/ New_default
    \/ New_from
    \/ New_from_str
    \/ New_from_slice_start
    \/ New_from_array
    \/ Call_to_slice
    \/ Call_to_array
    \/ Call_to_char
    \/ Call_cmp
    \/ Drop

Spec == Init /\ [][Next]_vars

(***************************************************************************)
(* What the standard says, for stating the properties.                     *)
(***************************************************************************)
\* the length a lead byte declares, 0 for a byte that is no lead byte
DeclaredLen(b) ==
    IF b \in 0..\h7F THEN 1
    ELSE IF b \in \hC0..\hDF THEN 2
    ELSE IF b \in \hE0..\hEF THEN 3
    ELSE IF b \in \hF0..\hF7 THEN 4
    ELSE 0

IsContinuation(b) == b \in \h80..\hBF

\* src is a lead byte followed by the continuation bytes it declares
WellFormed(src) ==
    /\ Len(src) \in 2..4
    /\ DeclaredLen(src[1]) = Len(src)
    /\ \A i \in 2..Len(src) : IsContinuation(src[i])

\* the value the payload bits of a well-formed sequence carry
Payload(src) ==
    IF Len(src) = 2 THEN (src[1] - \hC0) * \h40 + (src[2] - \h80)
    ELSE IF Len(src) = 3
      THEN (src[1] - \hE0) * \h1000 + (src[2] - \h80) * \h40 + (src[3] - \h80)
    ELSE (src[1] - \hF0) * \h40000 + (src[2] - \h80) * \h1000
         + (src[3] - \h80) * \h40 + (src[4] - \h80)

\* the least value that needs n bytes
MinFor(n) == IF n = 2 THEN \h80 ELSE IF n = 3 THEN \h800 ELSE \h10000

\* the representation invariant of Utf8Char
RepInvariant(bytes) ==
    LET n == Utf8Char_len(bytes)
        c == Utf8Char_to_char(bytes)
    IN  /\ n \in 1..4
        /\ IsChar(c)
        /\ n = len_utf8(c)
        /\ SubSeq(bytes, 1, n) = StdEncodeUtf8(c)
        /\ \A i \in (n + 1)..4 : bytes[i] = 0

(***************************************************************************)
(* C1: UTF-8 round trip.  For every legal scalar s, with (bytes, len) =    *)
(* to_utf8_array(s), from_utf8_slice(bytes[0..len]) returns Ok((s, len))   *)
(* and from_utf8_array(bytes) returns Ok(s).                               *)
(***************************************************************************)
C1_Utf8RoundTrip ==
    op = "to_utf8_array" =>
        LET s == args[1]
            bytes == ret[1]
            len == ret[2]
        IN  /\ from_utf8_slice(SubSeq(bytes, 1, len)) = Ok(s, len)
            /\ from_utf8_array(bytes) = Ok(s, 0)

C1_Witness ==
    /\ op = "to_utf8_array"
    /\ args = <<\h1F600>>
    /\ ret = <<(<<\hF0, \h9F, \h98, \h80>>), 4>>
    /\ big_endian

(***************************************************************************)
(* C2: overlong rejection is exact.  For every lead byte followed by the   *)
(* continuation bytes it declares (2, 3 or 4 bytes in all), from_utf8_slice *)
(* and from_utf8_array return OverLong if and only if the value of the     *)
(* payload bits is below the minimum for that length.                      *)
(***************************************************************************)
C2_OverlongExact ==
    /\ op = "from_utf8_slice" /\ WellFormed(args[1]) =>
           (ret = Err("Utf8(OverLong)", 0) <=> Payload(args[1]) < MinFor(Len(args[1])))
    /\ op = "from_utf8_array" /\ DeclaredLen(args[1][1]) >= 2
         /\ WellFormed(SubSeq(args[1], 1, DeclaredLen(args[1][1]))) =>
           LET src == SubSeq(args[1], 1, DeclaredLen(args[1][1]))
           IN  ret = Err("Utf8(OverLong)", 0) <=> Payload(src) < MinFor(Len(src))

(***************************************************************************)
(* C3: a high surrogate (0xD800..=0xDBFF) given with no second unit makes  *)
(* from_utf16_tuple return the missing-second-unit error, without a panic, *)
(* as from_utf16_slice does for the one-unit slice.                        *)
(***************************************************************************)
C3_HighSurrogateAlone ==
    /\ op = "from_utf16_tuple" /\ args[1] \in \hD800..\hDBFF /\ args[2] = <<>> =>
           /\ ret = Err("MissingSecond", 0)
           /\ from_utf16_slice(<<args[1]>>) = Err("MissingSecond", 0)
    /\ op = "from_utf16_slice" /\ Len(args[1]) = 1 /\ args[1][1] \in \hD800..\hDBFF =>
           ret = Err("MissingSecond", 0)

(***************************************************************************)
(* C4: a low surrogate (0xDC00..=0xDFFF) as first unit is always reported  *)
(* as such, whatever the second unit: from_utf16_tuple returns             *)
(* FirstIsTrailingSurrogate and from_utf16_slice returns FirstLowSurrogate. *)
(***************************************************************************)
C4_LowSurrogateFirst ==
    /\ op = "from_utf16_tuple" /\ args[1] \in \hDC00..\hDFFF =>
           ret = Err("FirstIsTrailingSurrogate", 0)
    /\ op = "from_utf16_slice" /\ Len(args[1]) >= 1 /\ args[1][1] \in \hDC00..\hDFFF =>
           ret = Err("FirstLowSurrogate", 0)

(***************************************************************************)
(* C5 as claimed: when from_utf8_slice fails because the slice is shorter  *)
(* than the sequence its first byte declares, TooShort carries the number  *)
(* of bytes still needed, (1+extra) - src.len(); 1 for an empty slice.     *)
(***************************************************************************)
C5_TooShortIsMissing ==
    op = "from_utf8_slice" /\ ret.tag = "Err" /\ ret.err = "TooShort" =>
        LET src == args[1]
        IN  ret.n = IF src = <<>> THEN 1 ELSE DeclaredLen(src[1]) - Len(src)

(***************************************************************************)
(* C5 as amended: from_utf8_slice returns TooShort exactly when the slice  *)
(* is empty or shorter than the sequence its first byte declares, and the  *)
(* number TooShort carries is the whole length of that sequence, 1+extra   *)
(* (1 for an empty slice), not the number of bytes still missing.          *)
(***************************************************************************)
C5_TooShortIsTotal ==
    op = "from_utf8_slice" =>
        LET src == args[1]
            short == src = <<>> \/ Len(src) < DeclaredLen(src[1])
        IN  /\ short => ret = Err("TooShort", IF src = <<>> THEN 1 ELSE DeclaredLen(src[1]))
            /\ ret.tag = "Err" /\ ret.err = "TooShort" => short

C5_Witness ==
    /\ op = "from_utf8_slice"
    /\ args = <<(<<\hF4, \h80>>)>>
    /\ ret = Err("TooShort", 4)

(***************************************************************************)
(* C6: every Utf8Char a public constructor returns satisfies the           *)
(* representation invariant: bytes[0..len) is the minimal UTF-8 encoding   *)
(* of the legal scalar to_char(), len is in 1..=4 and bytes[len..4) are 0. *)
(***************************************************************************)
C6_RepInvariant ==
    pc = "have_uc" => RepInvariant(uc)

(***************************************************************************)
(* C7: UTF-16 round trip.  For every legal scalar s, with (u, v) =         *)
(* to_utf16_tuple(s): v is None exactly when s <= 0xFFFF,                  *)
(* from_utf16_tuple((u, v)) returns Ok(s) and from_utf16_slice of the      *)
(* units returns Ok((s, n)), n the number of units.                        *)
(***************************************************************************)
C7_Utf16RoundTrip ==
    op = "to_utf16_tuple" =>
        LET s == args[1]
            u == ret[1]
            v == ret[2]
        IN  /\ v = <<>> <=> s <= \hFFFF
            /\ from_utf16_tuple(u, v) = Ok(s, 0)
            /\ from_utf16_slice(<<u>> \o v) = Ok(s, IF v = <<>> THEN 1 ELSE 2)

C7_Witness ==
    /\ op = "to_utf16_tuple"
    /\ args = <<\h1F600>>
    /\ ret = <<\hD83D, <<\hDE00>> >>

(***************************************************************************)
(* C8: copying out to a caller's buffer.  to_utf8_slice and                *)
(* Utf8Char::to_slice return None exactly when the buffer is shorter than  *)
(* the encoding, and then leave the buffer as it was; otherwise they       *)
(* return Some(encoded length) with the encoding at the start of the       *)
(* buffer; a buffer of 4 bytes never gives None.  The same for             *)
(* to_utf16_slice, in units, with 2 for 4.                                 *)
(***************************************************************************)
CopiedOut(s, before, encoding, max) ==
    /\ ret = None <=> Len(before) < Len(encoding)
    /\ ret = None => dst = before
    /\ ret # None =>
         /\ ret = Some(Len(encoding))
         /\ Len(dst) = Len(before)
         /\ SubSeq(dst, 1, Len(encoding)) = encoding
    /\ Len(before) = max => ret # None

C8_CopyOut ==
    /\ op = "to_utf8_slice" => CopiedOut(args[1], args[2], StdEncodeUtf8(args[1]), 4)
    /\ op = "to_slice" /\ RepInvariant(args[1]) =>
           CopiedOut(Utf8Char_to_char(args[1]), args[2],
                     StdEncodeUtf8(Utf8Char_to_char(args[1])), 4)
    /\ op = "to_utf16_slice" =>
           CopiedOut(args[1], args[2],
                     IF args[1] <= \hFFFF THEN <<args[1]>>
                     ELSE <<\hD800 + ((args[1] - \h10000) \div \h400),
                            \hDC00 + ((args[1] - \h10000) % \h400)>>, 2)

C8_Witness ==
    /\ op = "to_utf8_slice"
    /\ args[1] = \h10000
    /\ Len(args[2]) = 3
    /\ ret = None
    /\ dst = args[2]

(***************************************************************************)
(* C9: Utf8Char::from_str of a string returns Err(Empty) iff the string is *)
(* empty, Err(SeveralCodePoints) iff it has two or more codepoints, and    *)
(* Ok(uc) iff it has exactly one; then the used bytes of uc are the bytes  *)
(* of the string, uc.len() is its length and the unused bytes are zero.    *)
(***************************************************************************)
C9_FromStr ==
    op = "from_str" =>
        LET s == args[1]
            bytes == as_bytes(s)
        IN  /\ ret = Err("Empty", 0) <=> Len(s) = 0
            /\ ret = Err("SeveralCodePoints", 0) <=> Len(s) >= 2
            /\ ret.tag = "Ok" <=> Len(s) = 1
            /\ Len(s) = 1 =>
                 /\ SubSeq(ret.val, 1, Len(bytes)) = bytes
                 /\ Utf8Char_len(ret.val) = Len(bytes)
                 /\ \A i \in (Len(bytes) + 1)..4 : ret.val[i] = 0

C9_Witness ==
    /\ op = "from_str"
    /\ args = <<(<<\h1F600, \h61>>)>>
    /\ ret = Err("SeveralCodePoints", 0)

(***************************************************************************)
(* C10: for legal scalars a and b, the derived ordering and equality of    *)
(* Utf8Char::from(a) and Utf8Char::from(b) give what comparing a with b    *)
(* gives.                                                                  *)
(***************************************************************************)
C10_OrderAgrees ==
    op = "cmp" /\ IsChar(Utf8Char_to_char(args[1]))
      /\ args[1] = Utf8Char_from(Utf8Char_to_char(args[1])) =>
        LET a == Utf8Char_to_char(args[1])
            b == args[2]
        IN  /\ ret[1] = char_cmp(a, b)
            /\ ret[2] = (a = b)

C10_Witness ==
    /\ op = "cmp"
    /\ args = <<Utf8Char_from(\hFFFF), \h10000>>
    /\ ret = <<"Less", FALSE>>

(***************************************************************************)
(* C11: from_u32_detailed(raw), for every 32-bit raw value, returns        *)
(* Err(Utf16Reserved) iff raw is in 0xD800..=0xDFFF, Err(TooHigh) iff      *)
(* raw > 0x10FFFF, and otherwise Ok of the scalar whose value is raw.      *)
(* raw is read as its two 16-bit halves: raw = hi * 0x10000 + lo.          *)
(***************************************************************************)
C11_FromU32Detailed ==
    op = "from_u32_detailed" =>
        LET hi == args[1][4] * \h100 + args[1][3]
            lo == args[1][2] * \h100 + args[1][1]
            reserved == hi = 0 /\ lo \in \hD800..\hDFFF
            too_high == hi > \h10
        IN  /\ ret = Err("Utf16Reserved", 0) <=> reserved
            /\ ret = Err("TooHigh", 0) <=> too_high
            /\ ~reserved /\ ~too_high => ret = Ok(hi * \h10000 + lo, 0) /\ IsChar(ret.val)

C11_Witness ==
    /\ op = "from_u32_detailed"
    /\ args = <<U32Max>>
    /\ ret = Err("TooHigh", 0)

(***************************************************************************)
(* C12: when to_utf8_slice, Utf8Char::to_slice or to_utf16_slice returns   *)
(* Some(n), n is the number of elements written: dst[0..n) holds the       *)
(* encoding and every element of dst at index >= n keeps the value it had  *)
(* before the call.                                                        *)
(***************************************************************************)
FrameKept(before, encoding) ==
    ret.tag = "Some" =>
        /\ ret.n = Len(encoding)
        /\ SubSeq(dst, 1, ret.n) = encoding
        /\ \A i \in (ret.n + 1)..Len(before) : dst[i] = before[i]

C12_OnlyWritten ==
    /\ op = "to_utf8_slice" => FrameKept(args[2], StdEncodeUtf8(args[1]))
    /\ op = "to_slice" /\ RepInvariant(args[1]) =>
           FrameKept(args[2], StdEncodeUtf8(Utf8Char_to_char(args[1])))
    /\ op = "to_utf16_slice" =>
           FrameKept(args[2],
                     IF args[1] <= \hFFFF THEN <<args[1]>>
                     ELSE <<\hD800 + ((args[1] - \h10000) \div \h400),
                            \hDC00 + ((args[1] - \h10000) % \h400)>>)

====
